---- MODULE Spec2Model ----
(***************************************************************************)
(* Nactive Health mini-EHR backend: the middleware chain of src/auth.ts    *)
(* (authenticateToken, requireRole, auditLog, login, logout, getMe), the   *)
(* body validation of src/validation.ts and the route wiring and handlers  *)
(* of the server file (kept in src/README.md, lines 58-325).               *)
(*                                                                         *)
(* A request is handled by one task.  The middlewares run synchronously    *)
(* when the request is received; each `await prisma...` of a handler is a  *)
(* point where other requests interleave, and the audit write started by   *)
(* the patched res.send is detached: it settles after the response.        *)
(*                                                                         *)
(* The application-wide middlewares (helmet, cors, morgan, the rate        *)
(* limiter, express.json) and the ORM are outside the model: a request     *)
(* here is one that has reached its route, and a prisma call resolves or   *)
(* rejects.                                                                *)
(***************************************************************************)
EXTENDS Integers, Sequences, FiniteSets, TLC

\* ------------------------------------------------------------------ bounds
MaxReq == 2          \* requests received in a run of Spec
MaxSessionReq == 1   \* requests received in a run of SpecSession

\* --------------------------------------------------------- JavaScript values
\* A JavaScript value of the kinds parseInt and `x || null` tell apart.
Num(n) == [t |-> "num", v |-> n]
NaN == [t |-> "nan", v |-> 0]
Undefined == [t |-> "undef", v |-> 0]
Null == [t |-> "null", v |-> 0]

DigitChars == <<"0", "1", "2", "3", "4", "5", "6", "7", "8", "9">>
IsDigit(c) == \E i \in 1..Len(DigitChars) : DigitChars[i] = c
DigitVal(c) == (CHOOSE i \in 1..Len(DigitChars) : DigitChars[i] = c) - 1

\* The length of the longest prefix of s made of decimal digits.
RECURSIVE LeadDigits(_)
LeadDigits(s) ==
    IF s = <<>> \/ ~IsDigit(Head(s)) THEN 0 ELSE 1 + LeadDigits(Tail(s))

\* The value of a sequence of decimal digits.
RECURSIVE DigitsValue(_)
DigitsValue(s) ==
    IF s = <<>> THEN 0
    ELSE DigitsValue(SubSeq(s, 1, Len(s) - 1)) * 10 + DigitVal(s[Len(s)])

\* parseInt(string): an optional sign, then the longest run of decimal digits;
\* whatever follows is ignored; NaN when there is no digit.
parseInt(s) ==
    LET signed == s # <<>> /\ Head(s) \in {"-", "+"}
        rest == IF signed THEN Tail(s) ELSE s
        n == LeadDigits(rest)
        mag == DigitsValue(SubSeq(rest, 1, n))
    IN  IF n = 0 THEN NaN
        ELSE Num(IF signed /\ Head(s) = "-" THEN 0 - mag ELSE mag)

\* JavaScript truthiness of a string and of a value.
TruthyString(s) == s # <<>>
Truthy(x) == x.t = "num" /\ x.v # 0

\* `x || null`
OrNull(x) == IF Truthy(x) THEN x ELSE Null

\* Joi.number(): a number, or a string that converts to one (digits with an
\* optional sign and an optional fraction).
JoiNumber(s) ==
    LET signed == s # <<>> /\ Head(s) \in {"-", "+"}
        rest == IF signed THEN Tail(s) ELSE s
        n == LeadDigits(rest)
        frac == SubSeq(rest, n + 1, Len(rest))
    IN  /\ n > 0
        /\ \/ frac = <<>>
           \/ /\ Len(frac) >= 2
              /\ Head(frac) = "."
              /\ LeadDigits(Tail(frac)) = Len(frac) - 1


\* ------------------------------------------------------------------- users
\* The seeded accounts (the default logins); the User table is never written.
Users ==
    << [id |-> 1, username |-> "dr_smith", role |-> "doctor"],
       [id |-> 2, username |-> "nurse_jane", role |-> "nurse"],
       [id |-> 3, username |-> "admin", role |-> "admin"] >>

UserRole == {"doctor", "nurse", "admin"}

NoUser == [id |-> 0, username |-> "", role |-> ""]

\* The `token` cookie: absent, or a JWT with its payload, whether its
\* signature is the server's, and whether its 24h expiry has passed.
NoToken == [id |-> 0, username |-> "", role |-> "", sig |-> "", exp |-> ""]

\* jwt.sign({id, username, role}, JWT_SECRET, {expiresIn: '24h'})
jwtSign(u) ==
    [id |-> u.id, username |-> u.username, role |-> u.role,
     sig |-> "good", exp |-> "live"]

\* jwt.verify: the payload, or NoUser for err (bad signature or expired).
jwtVerify(token) ==
    IF token.sig = "good" /\ token.exp = "live"
    THEN [id |-> token.id, username |-> token.username, role |-> token.role]
    ELSE NoUser

\* req.cookies.token of a request, whatever the client holds: no cookie, a
\* token login issued to one of the accounts, such a token after its expiry
\* has passed, or a token the client signed itself for the admin account.
IssuedTokens == {jwtSign(Users[i]) : i \in 1..Len(Users)}
Tokens ==
    {NoToken} \cup IssuedTokens
    \cup {[jwtSign(Users[1]) EXCEPT !.exp = "past"]}
    \cup {[jwtSign(Users[3]) EXCEPT !.sig = "bad"]}

\* ------------------------------------------------------------- middlewares
\* authenticateToken: status 0 stands for next().
authenticateToken(token) ==
    IF token = NoToken THEN [status |-> 401, user |-> NoUser]
    ELSE IF jwtVerify(token) = NoUser THEN [status |-> 403, user |-> NoUser]
    ELSE [status |-> 0, user |-> jwtVerify(token)]

\* requireRole(roles): 0 stands for next().
requireRoleAnyRole(roles, user) == IF user = NoUser THEN 403 ELSE 0
requireRole(roles, user) ==
    IF user = NoUser \/ user.role \notin roles THEN 403 ELSE 0

\* validate(schema): TRUE when schema.validate(req.body) reports no error.
\* fieldsOk: the fields other than the parent id satisfy the schema;
\* arg: the body's patient_id / encounter_id, as the text of its value.
validate(schema, fieldsOk, arg) ==
    CASE schema = "patientSchema" -> fieldsOk
      [] schema = "encounterSchema" -> fieldsOk /\ JoiNumber(arg)
      [] schema = "prescriptionSchema" -> fieldsOk /\ JoiNumber(arg)
      [] OTHER -> TRUE

\* ------------------------------------------------------------------ routes
NoAudit == [action |-> "", entity_type |-> ""]

CreatePatient == "POST /api/patients"
ListPatients == "GET /api/patients"
GetPatient == "GET /api/patients/:id"
CreateEncounter == "POST /api/encounters"
CreatePrescription == "POST /api/prescriptions"
GetRecords == "GET /api/patients/:id/records"
GetAuditLogs == "GET /api/audit-logs"
GetMe == "GET /api/auth/me"

Endpoints ==
    {CreatePatient, ListPatients, GetPatient, CreateEncounter,
     CreatePrescription, GetRecords, GetAuditLogs, GetMe}

\* The middlewares each route is wired with: the roles given to requireRole
\* (gated FALSE: no role gate), the schema given to validate, the action and
\* entity type given to auditLog, and whether the path has an :id parameter.
Route(ep) ==
    CASE ep = CreatePatient ->
           [gated |-> TRUE, roles |-> {"doctor", "nurse", "admin"},
            schema |-> "patientSchema",
            audit |-> [action |-> "CREATE", entity_type |-> "patient"], param |-> FALSE]
      [] ep = ListPatients ->
           [gated |-> TRUE, roles |-> {"doctor", "nurse", "admin"},
            schema |-> "none", audit |-> NoAudit, param |-> FALSE]
      [] ep = GetPatient ->
           [gated |-> TRUE, roles |-> {"doctor", "nurse", "admin"},
            schema |-> "none",
            audit |-> [action |-> "READ", entity_type |-> "patient"], param |-> TRUE]
      [] ep = CreateEncounter ->
           [gated |-> TRUE, roles |-> {"doctor", "nurse"},
            schema |-> "encounterSchema",
            audit |-> [action |-> "CREATE", entity_type |-> "encounter"], param |-> FALSE]
      [] ep = CreatePrescription ->
           [gated |-> TRUE, roles |-> {"doctor"},
            schema |-> "prescriptionSchema",
            audit |-> [action |-> "CREATE", entity_type |-> "prescription"], param |-> FALSE]
      [] ep = GetRecords ->
           [gated |-> TRUE, roles |-> {"doctor", "nurse", "admin"},
            schema |-> "none",
            audit |-> [action |-> "READ", entity_type |-> "patient_records"], param |-> TRUE]
      [] ep = GetAuditLogs ->
           [gated |-> TRUE, roles |-> {"admin"},
            schema |-> "none", audit |-> NoAudit, param |-> FALSE]
      [] OTHER ->
           [gated |-> FALSE, roles |-> {},
            schema |-> "none", audit |-> NoAudit, param |-> FALSE]


\* ------------------------------------------------------------------- state
VARIABLES
    patients,        \* Patient table, in insertion order
    encounters,      \* Encounter table
    prescriptions,   \* Prescription table
    auditLogs,       \* AuditLog table, in insertion (timestamp) order
    reqs,            \* the requests, by order of arrival
    cookie,          \* the `token` cookie in the client's jar
    sinceLogout,     \* history: the jar is as the last logout response left it
    nreq,            \* history: requests received so far
    mw               \* the audit middleware applied on its own (SpecMw)

vars == <<patients, encounters, prescriptions, auditLogs, reqs, cookie,
          sinceLogout, nreq, mw>>

store == <<patients, encounters, prescriptions>>

\* The requests of a run, numbered as they arrive; all of them may be in
\* flight at the same time.
Slots == 1..MaxReq

NoEntry == [user_role |-> "", action |-> "", entity_type |-> "", entity_id |-> Null]

\* A request not yet received, or over.  pc: "handler" (in the route's handler,
\* before its first query has resolved), "found" (the existence check has
\* found the parent), "done" (answered).  audit: the state of the detached
\* prisma.auditLog.create the request started, entry: the row it writes.
\* rid, afterLogout, answeredBefore and writtenBefore are history fields: the
\* number of the request and what had happened when it was received; they
\* take no part in what the server does.
Idle ==
    [ep |-> "", user |-> NoUser, arg |-> <<>>, pc |-> "idle", patched |-> FALSE,
     status |-> 0, bodyId |-> Undefined, result |-> <<>>,
     audit |-> "none", entry |-> NoEntry,
     rid |-> 0, afterLogout |-> FALSE, answeredBefore |-> {}, writtenBefore |-> {}]

Ids(table) == {table[i].id : i \in 1..Len(table)}
Rows(table) == {table[i] : i \in 1..Len(table)}

\* req.params.id: the path parameter of a route that has one, else undefined.
ParamsId(q) == IF Route(q.ep).param THEN q.arg ELSE <<>>

\* ------------------------------------------------------------ audit recorder
\* The entity id the patched res.send derives (before `|| null`).
entityId(paramsId, dataId) ==
    IF TruthyString(paramsId) THEN parseInt(paramsId) ELSE dataId

\* The patched res.send of auditLog(action, entityType): the row handed to
\* prisma.auditLog.create, or NoEntry when none is created.  jsonOk: the
\* data written parses as JSON; dataId: the `id` field of the parsed data.
auditLogSendAnyStatus(audit, user, paramsId, statusCode, jsonOk, dataId) ==
    IF user # NoUser /\ jsonOk
    THEN [user_role |-> user.role, action |-> audit.action,
          entity_type |-> audit.entity_type,
          entity_id |-> OrNull(entityId(paramsId, dataId))]
    ELSE NoEntry
auditLogSend(audit, user, paramsId, statusCode, jsonOk, dataId) ==
    IF statusCode >= 200 /\ statusCode < 300 /\ user # NoUser /\ jsonOk
    THEN [user_role |-> user.role, action |-> audit.action,
          entity_type |-> audit.entity_type,
          entity_id |-> OrNull(entityId(paramsId, dataId))]
    ELSE NoEntry

\* res.status(st).json(data) by the request of record q: through the patched
\* res.send when auditLog has run, and then the original send.
RespondAuditsAll(q, st, dataId) ==
    LET e == auditLogSend(Route(q.ep).audit, q.user, ParamsId(q), 200, TRUE, dataId)
    IN  [q EXCEPT !.pc = "done", !.status = st, !.bodyId = dataId,
                  !.entry = e, !.audit = IF e = NoEntry THEN "none" ELSE "pending"]
Respond(q, st, dataId) ==
    LET e == IF q.patched
             THEN auditLogSend(Route(q.ep).audit, q.user, ParamsId(q), st, TRUE, dataId)
             ELSE NoEntry
    IN  [q EXCEPT !.pc = "done", !.status = st, !.bodyId = dataId,
                  !.entry = e, !.audit = IF e = NoEntry THEN "none" ELSE "pending"]

\* The audit middleware on its own: a response not yet sent.
NoMw ==
    [user |-> NoUser, paramsId |-> <<>>, statusCode |-> 0, jsonOk |-> TRUE,
     dataId |-> Undefined, sent |-> FALSE, entry |-> NoEntry]

\* The database the server starts on: empty, or holding a patient and an
\* encounter of that patient written by an earlier run.
Init ==
    /\ \E seeded \in BOOLEAN :
          /\ patients = IF seeded THEN <<[id |-> 1]>> ELSE <<>>
          /\ encounters = IF seeded THEN <<[id |-> 1, patient_id |-> 1]>> ELSE <<>>
    /\ prescriptions = <<>>
    /\ auditLogs = <<>>
    /\ reqs = [r \in Slots |-> Idle]
    /\ cookie = NoToken
    /\ sinceLogout = FALSE
    /\ nreq = 0
    /\ mw = NoMw

\* ---------------------------------------------------------------- requests
\* The texts a path :id takes here, and those of a body patient_id or
\* encounter_id (a JSON number is written as JavaScript prints it).
PathIds == {<<"1">>, <<"a">>}
BodyIds == {<<"1">>, <<"1", ".", "5">>}

ArgsOf(ep) ==
    IF Route(ep).param THEN PathIds
    ELSE IF Route(ep).schema \in {"encounterSchema", "prescriptionSchema"} THEN BodyIds
    ELSE {<<>>}

FieldsOf(ep) == IF Route(ep).schema = "none" THEN {TRUE} ELSE BOOLEAN

\* The middleware chain of route ep on a request with cookie `token`:
\* authenticateToken, requireRole, validate, auditLog, in the wired order.
\* The record of the request when the chain has run: answered by the
\* middleware that rejected it, or in its handler (getMe answers at once).
Chain(q, token, fieldsOk) ==
    LET route == Route(q.ep)
        a == authenticateToken(token)
        u == a.user
    IN  IF a.status # 0 THEN Respond(q, a.status, Undefined)
        ELSE IF route.gated /\ requireRole(route.roles, u) # 0
             THEN Respond([q EXCEPT !.user = u], 403, Undefined)
        ELSE IF ~validate(route.schema, fieldsOk, q.arg)
             THEN Respond([q EXCEPT !.user = u], 400, Undefined)
        ELSE IF q.ep = GetMe
             THEN Respond([q EXCEPT !.user = u], 200, Undefined)
        ELSE [q EXCEPT !.user = u, !.pc = "handler",
                       !.patched = (route.audit # NoAudit)]

\* A request is over when it is answered and its audit write has settled;
\* its record is held for one more step and then dropped.
Settled(q) == q.pc = "done" /\ q.audit # "pending"
Sweep(rs) == [s \in Slots |-> IF Settled(rs[s]) THEN Idle ELSE rs[s]]
Put(r, q) == reqs' = [Sweep(reqs) EXCEPT ![r] = q]

\* The row prisma.auditLog.create of request q writes (req: the request
\* that wrote it, a history field).
AuditRow(q) ==
    [user_role |-> q.entry.user_role, action |-> q.entry.action,
     entity_type |-> q.entry.entity_type, entity_id |-> q.entry.entity_id,
     req |-> q.rid]

\* Request number r arrives at a protected endpoint and runs its middleware
\* chain.  max: the requests the run receives.
Receive(r, ep, token, arg, fieldsOk, max) ==
    /\ nreq < max
    /\ r = nreq + 1
    /\ LET held == {s \in Slots : reqs[s].pc = "done" /\ reqs[s].audit # "none"}
           q == [Idle EXCEPT
                   !.ep = ep, !.arg = arg, !.rid = nreq + 1,
                   !.afterLogout = (sinceLogout /\ token = cookie),
                   !.answeredBefore =
                       IF ep = GetAuditLogs THEN {AuditRow(reqs[s]) : s \in held} ELSE {},
                   !.writtenBefore =
                       IF ep = GetAuditLogs THEN Rows(auditLogs) ELSE {}]
       IN  Put(r, Chain(q, token, fieldsOk))
    /\ nreq' = nreq + 1
    /\ UNCHANGED <<store, auditLogs, cookie, sinceLogout, mw>>

InHandler(r, ep) == reqs[r].pc = "handler" /\ reqs[r].ep = ep
AfterFind(r, ep) == reqs[r].pc = "found" /\ reqs[r].ep = ep

\* POST /api/patients: prisma.patient.create, then 201 {id}.
PatientCreate(r) ==
    /\ InHandler(r, CreatePatient)
    /\ LET id == Len(patients) + 1
       IN  /\ patients' = Append(patients, [id |-> id])
           /\ Put(r, Respond(reqs[r], 201, Num(id)))
    /\ UNCHANGED <<encounters, prescriptions, auditLogs, cookie, sinceLogout, nreq, mw>>

\* GET /api/patients: prisma.patient.findMany, then 200 with the array.
PatientsList(r) ==
    /\ InHandler(r, ListPatients)
    /\ Put(r, Respond(reqs[r], 200, Undefined))
    /\ UNCHANGED <<store, auditLogs, cookie, sinceLogout, nreq, mw>>

\* The record after await prisma.<table>.findUnique({id: parseInt(arg)}) of
\* a handler: a NaN id is rejected by the client (caught: 500); no such row:
\* 404; else the handler goes on with the row (next).
FindUniqueNoCheck(q, table, next) ==
    LET id == parseInt(q.arg)
    IN  IF id = NaN THEN Respond(q, 500, Undefined) ELSE next
FindUnique(q, table, next) ==
    LET id == parseInt(q.arg)
    IN  IF id = NaN THEN Respond(q, 500, Undefined)
        ELSE IF id.v \notin Ids(table) THEN Respond(q, 404, Undefined)
        ELSE next

\* GET /api/patients/:id: the query, then 200 with the patient.
PatientGet(r) ==
    /\ InHandler(r, GetPatient)
    /\ Put(r, FindUnique(reqs[r], patients,
                         Respond(reqs[r], 200, parseInt(reqs[r].arg))))
    /\ UNCHANGED <<store, auditLogs, cookie, sinceLogout, nreq, mw>>

\* The existence check of a create or of the records read.
FindParent(r, ep, table) ==
    /\ InHandler(r, ep)
    /\ Put(r, FindUnique(reqs[r], table, [reqs[r] EXCEPT !.pc = "found"]))
    /\ UNCHANGED <<store, auditLogs, cookie, sinceLogout, nreq, mw>>

EncounterFindPatient(r) == FindParent(r, CreateEncounter, patients)
PrescriptionFindEncounter(r) == FindParent(r, CreatePrescription, encounters)
RecordsFindPatient(r) == FindParent(r, GetRecords, patients)

\* POST /api/encounters after the check: prisma.encounter.create with
\* patient_id parseInt(patient_id), then 201 {id}.
EncounterCreate(r) ==
    /\ AfterFind(r, CreateEncounter)
    /\ LET id == Len(encounters) + 1
       IN  /\ encounters' = Append(encounters,
                  [id |-> id, patient_id |-> parseInt(reqs[r].arg).v])
           /\ Put(r, Respond(reqs[r], 201, Num(id)))
    /\ UNCHANGED <<patients, prescriptions, auditLogs, cookie, sinceLogout, nreq, mw>>

\* POST /api/prescriptions after the check: prisma.prescription.create
\* with created_by req.user.id, then 201 {id}.
PrescriptionCreate(r) ==
    /\ AfterFind(r, CreatePrescription)
    /\ LET id == Len(prescriptions) + 1
       IN  /\ prescriptions' = Append(prescriptions,
                  [id |-> id, encounter_id |-> parseInt(reqs[r].arg).v,
                   created_by |-> reqs[r].user.id])
           /\ Put(r, Respond(reqs[r], 201, Num(id)))
    /\ UNCHANGED <<patients, encounters, auditLogs, cookie, sinceLogout, nreq, mw>>

\* GET /api/patients/:id/records after the check:
\* prisma.encounter.findMany and 200 {patient, encounters, prescriptions}
\* (an object with no id field of its own).
RecordsRead(r) ==
    /\ AfterFind(r, GetRecords)
    /\ Put(r, Respond(reqs[r], 200, Undefined))
    /\ UNCHANGED <<store, auditLogs, cookie, sinceLogout, nreq, mw>>


\* take: n of prisma's findMany: the first n rows.
Take(s, n) == SubSeq(s, 1, IF Len(s) < n THEN Len(s) ELSE n)

RECURSIVE Reverse(_)
Reverse(s) == IF s = <<>> THEN <<>> ELSE Append(Reverse(Tail(s)), Head(s))

\* prisma.auditLog.findMany({orderBy: {timestamp: 'desc'}, take: 100})
auditLogFindManySkipNewest(rows) ==
    IF rows = <<>> THEN <<>> ELSE Take(Tail(Reverse(rows)), 100)
auditLogFindMany(rows) == Take(Reverse(rows), 100)

\* GET /api/audit-logs: the query, then 200 with the rows.
AuditLogsList(r) ==
    /\ InHandler(r, GetAuditLogs)
    /\ Put(r, [Respond(reqs[r], 200, Undefined) EXCEPT
                 !.result = auditLogFindMany(auditLogs)])
    /\ UNCHANGED <<store, auditLogs, cookie, sinceLogout, nreq, mw>>

\* A prisma call of a handler rejects: caught, 500 {error: 'Database error'}.
StoreError(r) ==
    /\ reqs[r].pc \in {"handler", "found"}
    /\ Put(r, Respond(reqs[r], 500, Undefined))
    /\ UNCHANGED <<store, auditLogs, cookie, sinceLogout, nreq, mw>>

\* The detached prisma.auditLog.create of a request resolves: the row is in
\* the table.
AuditWriteOk(r) ==
    /\ reqs[r].audit = "pending"
    /\ auditLogs' = Append(auditLogs, AuditRow(reqs[r]))
    /\ Put(r, [reqs[r] EXCEPT !.audit = "written"])
    /\ UNCHANGED <<store, cookie, sinceLogout, nreq, mw>>

\* What a rejected prisma.auditLog.create leaves of the request: .catch logs
\* the error and drops it.
auditCatchSurfaces(q) == [q EXCEPT !.audit = "failed", !.status = 500]
auditCatch(q) == [q EXCEPT !.audit = "failed"]

AuditWriteFail(r) ==
    /\ reqs[r].audit = "pending"
    /\ Put(r, auditCatch(reqs[r]))
    /\ UNCHANGED <<store, auditLogs, cookie, sinceLogout, nreq, mw>>

\* The handlers' steps.
Handle(r) ==
    \/ PatientCreate(r)
    \/ PatientsList(r)
    \/ PatientGet(r)
    \/ EncounterFindPatient(r)
    \/ EncounterCreate(r)
    \/ PrescriptionFindEncounter(r)
    \/ PrescriptionCreate(r)
    \/ RecordsFindPatient(r)
    \/ RecordsRead(r)
    \/ AuditLogsList(r)
    \/ StoreError(r)
    \/ AuditWriteOk(r)
    \/ AuditWriteFail(r)

\* Requests to the role-gated routes, with whatever token the client holds.
Request ==
    \E r \in Slots, ep \in Endpoints \ {GetMe}, token \in Tokens :
       \E arg \in ArgsOf(ep), f \in FieldsOf(ep) :
          Receive(r, ep, token, arg, f, MaxReq)

Next ==
    \/ Request
    \/ \E r \in Slots : Handle(r)

Spec == Init /\ [][Next]_vars

\* ---------------------------------------------------------- login, logout
\* POST /api/auth/login: validate(loginSchema) (400), findUnique by username
\* and bcrypt.compareSync (401), else 200 and the cookie is set to a fresh
\* token.  username 0 stands for a name that is no account.
Login(fieldsOk, username, passwordOk) ==
    /\ IF fieldsOk /\ username # 0 /\ passwordOk
       THEN cookie' = jwtSign(Users[username]) /\ sinceLogout' = FALSE
       ELSE UNCHANGED <<cookie, sinceLogout>>
    /\ reqs' = Sweep(reqs)
    /\ UNCHANGED <<store, auditLogs, nreq, mw>>

\* The cookie res.clearCookie('token', ...) leaves in the jar.
logoutKeepsCookie(jar) == jar
logoutCookie(jar) == NoToken

\* POST /api/auth/logout: always 200.
Logout ==
    /\ cookie' = logoutCookie(cookie)
    /\ sinceLogout' = TRUE
    /\ reqs' = Sweep(reqs)
    /\ UNCHANGED <<store, auditLogs, nreq, mw>>

\* What a browser sends: the cookie its jar holds, or that cookie after its
\* expiry has passed.
JarTokens(jar) == {jar} \cup (IF jar = NoToken THEN {} ELSE {[jar EXCEPT !.exp = "past"]})

\* Requests of one client to the protected routes, with its jar's cookie.
SessionRequest ==
    \E r \in Slots, ep \in Endpoints, token \in JarTokens(cookie) :
       \E arg \in ArgsOf(ep), f \in FieldsOf(ep) :
          Receive(r, ep, token, arg, f, MaxSessionReq)

NextSession ==
    \/ \E f \in BOOLEAN, u \in 0..Len(Users), p \in BOOLEAN : Login(f, u, p)
    \/ Logout
    \/ SessionRequest
    \/ \E r \in Slots : Handle(r)

SpecSession == Init /\ [][NextSession]_vars

\* ------------------------------------------------ the audit middleware alone
\* auditLog(action, entityType) under a handler that answers with any status,
\* path id and body: the response before res.send is called.
MwStatus == {199, 200, 201, 299, 300, 404, 500}
MwParamsId == {<<>>, <<"0">>, <<"1">>, <<"2">>, <<"a">>, <<"1", "a">>}
MwDataId == {Undefined, Num(0), Num(1), Num(2)}

InitMw ==
    /\ patients = <<>>
    /\ encounters = <<>>
    /\ prescriptions = <<>>
    /\ auditLogs = <<>>
    /\ reqs = [r \in Slots |-> Idle]
    /\ cookie = NoToken
    /\ sinceLogout = FALSE
    /\ nreq = 0
    /\ \E u \in {NoUser, jwtVerify(jwtSign(Users[2]))}, p \in MwParamsId,
          st \in MwStatus, j \in BOOLEAN, d \in MwDataId :
          mw = [NoMw EXCEPT !.user = u, !.paramsId = p, !.statusCode = st,
                            !.jsonOk = j, !.dataId = d]

\* The handler calls res.send: the patched send runs.
MwSend ==
    /\ ~mw.sent
    /\ mw' = [mw EXCEPT
                !.sent = TRUE,
                !.entry = auditLogSend([action |-> "READ", entity_type |-> "patient"],
                                       mw.user, mw.paramsId, mw.statusCode,
                                       mw.jsonOk, mw.dataId)]
    /\ UNCHANGED <<store, auditLogs, reqs, cookie, sinceLogout, nreq>>

NextMw == MwSend

SpecMw == InitMw /\ [][NextMw]_vars


\* ================================================================== claims
Held == {reqs[r] : r \in {s \in Slots : reqs[s].pc # "idle"}}
Is2xx(st) == st >= 200 /\ st < 300
Audited(ep) == Route(ep).audit # NoAudit
PastGate(q) == q.pc \in {"handler", "found"} \/ q.status \notin {401, 403}

\* The allowed-role sets the interface section of the specification declares.
DeclaredRoles(ep) ==
    CASE ep \in {CreatePatient, ListPatients, GetPatient, GetRecords} ->
           {"doctor", "nurse", "admin"}
      [] ep = CreateEncounter -> {"doctor", "nurse"}
      [] ep = CreatePrescription -> {"doctor"}
      [] ep = GetAuditLogs -> {"admin"}
      [] OTHER -> {}

GateState ==
    /\ \A q \in Held : q.ep # GetMe =>
          /\ PastGate(q) => q.user.role \in DeclaredRoles(q.ep)
          /\ (q.user # NoUser /\ q.user.role \notin DeclaredRoles(q.ep)) =>
                q.pc = "done" /\ q.status = 403 /\ q.audit = "none"
    /\ \A roles \in SUBSET UserRole : requireRole(roles, NoUser) = 403

GateStep ==
    \A r \in Slots :
       (reqs'[r] # reqs[r] /\ reqs'[r].pc = "done" /\ reqs'[r].status = 403)
          => store' = store /\ auditLogs' = auditLogs

\* C1: a request with a valid token of role R gets past the role gate of
\* endpoint E only if R is in the role set the specification declares for E;
\* otherwise it is answered 403, no audit write is started and no row is
\* written; the gate answers 403 when no identity is attached.
C1_RoleGate == []GateState /\ [][GateStep]_vars

C1_Witness ==
    \E q \in Held :
       q.ep = CreatePrescription /\ q.user.role = "nurse" /\ q.status = 403

\* The role permission table of the README.
ReadmeRoles(ep) ==
    CASE ep = CreatePatient -> {"doctor", "nurse"}
      [] ep = CreatePrescription -> {"doctor"}
      [] ep = GetAuditLogs -> {"admin"}
      [] OTHER -> {"doctor", "nurse", "admin"}

\* C2: the README's permission table holds for the server: in particular no
\* request of an admin identity gets past the gate of POST /api/patients.
C2_ReadmeTable ==
    \A q \in Held :
       (q.ep # GetMe /\ PastGate(q)) => q.user.role \in ReadmeRoles(q.ep)

\* C3: a request that fails session verification (401 without a token, 403
\* with one that does not verify or has expired), the role gate (403) or body
\* validation (400) is answered on receipt, before its handler: the step
\* that answers it writes no row and starts no audit write.
C3_RejectedShortCircuit ==
    /\ [](\A t \in Tokens :
             authenticateToken(t).status =
                IF t = NoToken THEN 401 ELSE IF t \in IssuedTokens THEN 0 ELSE 403)
    /\ [][\A r \in Slots :
            (reqs'[r] # reqs[r] /\ reqs'[r].pc = "done"
               /\ reqs'[r].status \in {400, 401, 403})
            => /\ reqs[r].pc = "idle"
               /\ reqs'[r].audit = "none"
               /\ store' = store
               /\ auditLogs' = auditLogs]_vars

C3_Witness ==
    \E q \in Held, o \in Held :
       /\ q.status = 400
       /\ o.pc \in {"handler", "found"}
       /\ o.rid < q.rid

\* Rows of the audit table written by request number k.
RowsOf(k) == {i \in 1..Len(auditLogs) : auditLogs[i].req = k}

\* C4, as claimed: a request to an audited endpoint that ended with a 2xx
\* status has exactly one audit entry once its audit write has settled.
C4_ExactlyOneEntry ==
    \A q \in Held :
       (q.pc = "done" /\ Audited(q.ep) /\ Is2xx(q.status) /\ q.audit # "pending")
          => Cardinality(RowsOf(q.rid)) = 1

\* The id of the entity a request answered 2xx read or created, when that
\* entity is in its table.
EntityOf(q) ==
    IF Route(q.ep).param THEN parseInt(q.arg) ELSE q.bodyId
EntityStored(q) ==
    /\ EntityOf(q).t = "num"
    /\ EntityOf(q).v \in Ids(CASE q.ep = CreateEncounter -> encounters
                               [] q.ep = CreatePrescription -> prescriptions
                               [] OTHER -> patients)

\* C4, amended: a request to an audited endpoint that ends with a 2xx status
\* starts exactly one audit write, carrying the role of the acting identity,
\* the action kind and entity type of the endpoint and the id of the entity
\* read or created; the table holds one entry of the request when that write
\* has succeeded and none before or when it has failed; other requests have
\* none; no request ever has two.
C4_AtMostOneEntry ==
    /\ \A q \in Held :
          IF q.pc = "done" /\ Audited(q.ep) /\ Is2xx(q.status)
          THEN /\ q.audit \in {"pending", "written", "failed"}
               /\ EntityStored(q)
               /\ q.entry = [user_role |-> q.user.role,
                             action |-> Route(q.ep).audit.action,
                             entity_type |-> Route(q.ep).audit.entity_type,
                             entity_id |-> EntityOf(q)]
               /\ Cardinality(RowsOf(q.rid)) = IF q.audit = "written" THEN 1 ELSE 0
               /\ q.audit = "written" => AuditRow(q) \in Rows(auditLogs)
          ELSE q.audit = "none" /\ RowsOf(q.rid) = {}
    /\ \A k \in 1..nreq : Cardinality(RowsOf(k)) <= 1

C4_Witness ==
    \E q \in Held :
       q.ep = CreatePatient /\ q.status = 201 /\ q.audit = "written"

\* The text of a row id, as a body or a path carries it.
TextOf(id) == <<DigitChars[id + 1]>>
IsIdOf(arg, table) == \E id \in Ids(table) : arg = TextOf(id)

\* C5: a create whose patient_id (encounter_id) matches no Patient
\* (Encounter) row is answered 404 and writes nothing: no such request is
\* answered 201.
C5_MissingParentNotFound ==
    \A q \in Held :
       (q.pc = "done" /\ q.status = 201)
          => /\ q.ep = CreateEncounter => IsIdOf(q.arg, patients)
             /\ q.ep = CreatePrescription => IsIdOf(q.arg, encounters)

NurseCreatedPatient(row) ==
    row.action = "CREATE" /\ row.entity_type = "patient" /\ row.user_role = "nurse"

AuditList == {q \in Held : q.ep = GetAuditLogs /\ q.pc = "done" /\ q.status = 200}

\* C6, as claimed: the audit entry of a POST /api/patients by a nurse that
\* was answered before GET /api/audit-logs was received is in the list the
\* GET returns.
C6_VisibleAfterResponse ==
    \A g \in AuditList :
       \A row \in g.answeredBefore : NurseCreatedPatient(row) => row \in Rows(g.result)

\* C6, amended: the audit entry of a POST /api/patients by a nurse is in the
\* list of every GET /api/audit-logs received after the audit write of that
\* request has succeeded (with fewer than 100 later entries); a GET received
\* after the response but before the write has succeeded may not show it.
C6_VisibleAfterWrite ==
    \A g \in AuditList :
       \A row \in g.writtenBefore :
          (NurseCreatedPatient(row) /\ Len(auditLogs) < 100) => row \in Rows(g.result)

C6_Witness ==
    \E g \in AuditList :
       /\ g.user.role = "admin"
       /\ \E row \in g.writtenBefore : NurseCreatedPatient(row) /\ row \in Rows(g.result)

\* C7: a request of the client that carries the cookie state the last logout
\* response left is answered 401 by authenticateToken and runs no handler,
\* until the client logs in again.
C7_AfterLogout401 ==
    /\ sinceLogout => cookie = NoToken
    /\ \A q \in Held :
          q.afterLogout => q.pc = "done" /\ q.status = 401 /\ q.audit = "none"

C7_Witness ==
    \E q \in Held : q.afterLogout /\ q.ep = GetAuditLogs /\ q.status = 401

\* C8: the audit write of a request settles, by success or by failure,
\* without changing the response or the rows written by the handler; a
\* failed write is not raised to the caller, not retried, and leaves the
\* audit table as it was.
C8_AuditFailureSilent ==
    [][\A r \in Slots :
          /\ (reqs[r].audit = "pending" /\ reqs'[r].audit \in {"written", "failed"})
                => /\ reqs'[r] = [reqs[r] EXCEPT !.audit = reqs'[r].audit]
                   /\ store' = store
                   /\ reqs'[r].audit = "failed" => auditLogs' = auditLogs
          /\ reqs[r].audit = "failed" => reqs'[r].audit \in {"failed", "none"}]_vars

C8_Witness ==
    \E q \in Held :
       /\ q.ep = CreatePatient /\ q.status = 201 /\ q.audit = "failed"
       /\ q.bodyId.v \in Ids(patients)

\* The entity id the claim states for a path id and a body id.
ClaimedEntityId(paramsId, dataId) ==
    IF paramsId # <<>> THEN parseInt(paramsId)
    ELSE IF dataId.t = "num" THEN dataId ELSE Null

\* C9: for a 2xx response the recorded entity_id is the integer value of the
\* path id when there is one, else the id of the body when it has one, else
\* null (a path id with no integer value is left to the code).
C9_EntityIdDerivation ==
    (mw.sent /\ Is2xx(mw.statusCode) /\ mw.user # NoUser /\ mw.jsonOk)
       => \/ ClaimedEntityId(mw.paramsId, mw.dataId) = NaN
          \/ mw.entry.entity_id = ClaimedEntityId(mw.paramsId, mw.dataId)

\* C10: every Encounter row references an existing Patient row and every
\* Prescription row an existing Encounter row, in every reachable state.
C10_ReferencesExist ==
    /\ \A e \in Rows(encounters) : e.patient_id \in Ids(patients)
    /\ \A p \in Rows(prescriptions) : p.encounter_id \in Ids(encounters)

C10_Witness ==
    /\ Len(encounters) >= 2
    /\ Len(prescriptions) >= 1
    /\ \E q \in Held : q.ep = CreatePrescription /\ q.status = 201

====
